---- MODULE Spec2Model ----
(***************************************************************************)
(* RapidMath: the App view machine (src/App.tsx) and the timed drill       *)
(* session (src/components/DrillSession.tsx, second component of the       *)
(* file, lines 222-564).                                                   *)
(*                                                                         *)
(* React semantics assumed by the model:                                   *)
(*  - every event handler, timer callback and promise continuation runs    *)
(*    to completion and its state updates are committed as one batch;      *)
(*  - the effects of a render caused by a user event run in the step of    *)
(*    that event; the effects of a render caused by a timer, an interval   *)
(*    or a promise run in a later step of their own (the countdown effect  *)
(*    that submits at zero: pendingExpiry; the fetchAdvice effect of       *)
(*    Analysis: analysis.effect), or at the start of the next render,      *)
(*    whatever causes it, after the updates that cause it were queued; a   *)
(*    handler that queues no update causes no render;                      *)
(*  - a handler reads the state of the render it was created in; the       *)
(*    callback given to setTimeout keeps the values it closed over;        *)
(*  - a state update on an unmounted component is dropped;                 *)
(*  - an exception thrown while rendering, with no error boundary,         *)
(*    unmounts the whole tree (modelled by the flag "crashed");            *)
(*  - all advance timers have the same delay (1200 ms), so they fire in    *)
(*    the order they were scheduled.                                       *)
(* A pending timer or request carries the flag "live": whether the drill   *)
(* session that created it is still mounted; requests.discarded counts    *)
(* the completions that arrived for an unmounted session.  The counter     *)
(* "outcomes"                                                              *)
(* (DetailEntries recorded since start-up) only bounds the model, and      *)
(* "rejected" records that the last event was a submit that returned at    *)
(* the empty-answer guard.                                                 *)
(* Strings are sequences of one-character strings.  Ids, dates and         *)
(* timeTaken are not part of the state; the clock advances, and timeSpent  *)
(* is recorded, only in the specification of the untimed variant.  A score *)
(* is the binary64 Number the division and the multiplication produce.     *)
(***************************************************************************)
EXTENDS Integers, Sequences, FiniteSets, TLC

VARIABLES
    view, user, currentTopic, lastResult,
    loading, questions, currentIndex, userAnswer, feedback,
    timeLeft, results, streak, maxStreak, pendingExpiry,
    requests, timers, crashed, outcomes, rejected, call,
    analysis, clock

appVars   == <<view, user, currentTopic, lastResult>>
drillVars == <<loading, questions, currentIndex, userAnswer,
               feedback, timeLeft, results, streak, maxStreak, pendingExpiry>>
vars      == <<view, user, currentTopic, lastResult,
               loading, questions, currentIndex, userAnswer, feedback,
               timeLeft, results, streak, maxStreak, pendingExpiry,
               requests, timers, crashed, outcomes, rejected, call,
               analysis, clock>>

(* ------------------------------ bounds -------------------------------- *)
MaxQuestions == 2
MaxOutcomes  == 2
MaxStrLen    == 3
MaxScanLen   == 5
MaxClockSteps == 3

(* ------------------------- program constants -------------------------- *)
TOTAL_TIME_PER_Q == 30
FEEDBACK_DELAY == 1200

Timeout == <<"T", "i", "m", "e", "o", "u", "t">>

Topics == {"Simplification", "Number Series"}

(* ------------------------------ strings ------------------------------- *)
IsSpace(c) == c \in {" "}

Lower(c) ==
    CASE c = "X" -> "x"
      [] c = "Y" -> "y"
      [] c = "T" -> "t"
      [] OTHER   -> c

ToLowerCase(s) == [i \in 1..Len(s) |-> Lower(s[i])]

RECURSIVE TrimStart(_)
TrimStart(s) ==
    IF s # <<>> /\ IsSpace(Head(s)) THEN TrimStart(Tail(s)) ELSE s

RECURSIVE TrimEnd(_)
TrimEnd(s) ==
    IF s # <<>> /\ IsSpace(s[Len(s)])
    THEN TrimEnd(SubSeq(s, 1, Len(s) - 1))
    ELSE s

Trim(s) == TrimEnd(TrimStart(s))

StripWhitespace(s) == SelectSeq(s, LAMBDA c : ~IsSpace(c))

NormalizeTrimOnly(s) == ToLowerCase(Trim(s))
NormalizeStripAll(s) == ToLowerCase(StripWhitespace(s))

NormalizeTimed(s) == NormalizeTrimOnly(s)

IsCorrectTimed(ans, correct) == NormalizeTimed(ans) = NormalizeTimed(correct)

(* ------------------------------ inputs -------------------------------- *)
CorrectAnswer == <<"x", ">", "y">>

AnswerChoices == { <<>>, <<"x", ">", "y">>, <<"z">> }

Question(k) == [id |-> k, correctAnswer |-> CorrectAnswer]

Batch(n) == [k \in 1..n |-> Question(k - 1)]

Names == { <<"a">> }

(* ------ Number arithmetic: IEEE 754 binary64, round to nearest even ----- *)
(* A Number is [sig, exp]: the value sig * 2^exp, where sig is a bit string *)
(* (most significant bit first) that is empty for zero and otherwise begins *)
(* and ends with 1, so that equal values are equal records.  The operands   *)
(* are small naturals; the bit strings are handled in limbs of LIMB bits.   *)
SIGNIFICAND_BITS == 53

LIMB == 20

Zeros(k) == [i \in 1..k |-> 0]

(* the w low bits of the natural m *)
BitsOf(m, w) == [i \in 1..w |-> (m \div 2^(w - i)) % 2]

RECURSIVE ValueOf(_)
ValueOf(bits) ==
    IF bits = <<>> THEN 0
    ELSE 2 * ValueOf(SubSeq(bits, 1, Len(bits) - 1)) + bits[Len(bits)]

Ones(bits) == {i \in DOMAIN bits : bits[i] = 1}

Lowest(S) == CHOOSE i \in S : \A j \in S : i <= j

Highest(S) == CHOOSE i \in S : \A j \in S : j <= i

StripLeadingZeros(bits) ==
    IF Ones(bits) = {} THEN <<>>
    ELSE SubSeq(bits, Lowest(Ones(bits)), Len(bits))

Canonical(bits, exp) ==
    IF Ones(bits) = {} THEN [sig |-> <<>>, exp |-> 0]
    ELSE [sig |-> SubSeq(bits, Lowest(Ones(bits)), Highest(Ones(bits))),
          exp |-> exp + Len(bits) - Highest(Ones(bits))]

Increment(bits) ==
    LET zeros == DOMAIN bits \ Ones(bits)
    IN  IF zeros = {} THEN <<1>> \o Zeros(Len(bits))
        ELSE [i \in DOMAIN bits |->
                IF i < Highest(zeros) THEN bits[i]
                ELSE IF i = Highest(zeros) THEN 1 ELSE 0]

(* an exact value bits * 2^exp rounded to SIGNIFICAND_BITS significant bits; *)
(* more: something nonzero lies below the last bit of bits                  *)
RoundToNumber(bits, exp, more) ==
    LET b == StripLeadingZeros(bits)
        d == Len(b) - SIGNIFICAND_BITS
    IN  IF d <= 0 THEN Canonical(b, exp)
        ELSE LET kept   == SubSeq(b, 1, SIGNIFICAND_BITS)
                 half   == b[SIGNIFICAND_BITS + 1] = 1
                 sticky == more \/ \E i \in (SIGNIFICAND_BITS + 2)..Len(b) :
                                      b[i] = 1
                 up     == half /\ (sticky \/ kept[SIGNIFICAND_BITS] = 1)
             IN  Canonical(IF up THEN Increment(kept) ELSE kept, exp + d)

(* a / n for naturals a and n, 0 < n < 2^5: the whole part and three limbs  *)
(* of the fraction by long division                                         *)
Divide(a, n) ==
    LET r0 == a % n
        r1 == (r0 * 2^LIMB) % n
        r2 == (r1 * 2^LIMB) % n
        r3 == (r2 * 2^LIMB) % n
    IN  RoundToNumber(BitsOf(a \div n, 30)
                        \o BitsOf((r0 * 2^LIMB) \div n, LIMB)
                        \o BitsOf((r1 * 2^LIMB) \div n, LIMB)
                        \o BitsOf((r2 * 2^LIMB) \div n, LIMB),
                      0 - 3 * LIMB, r3 # 0)

(* bits * k for a bit string of at most 3 limbs and a natural k < 2^10 *)
TimesSmall(bits, k) ==
    LET b  == Zeros(3 * LIMB - Len(bits)) \o bits
        p3 == ValueOf(SubSeq(b, 2 * LIMB + 1, 3 * LIMB)) * k
        p2 == ValueOf(SubSeq(b, LIMB + 1, 2 * LIMB)) * k + p3 \div 2^LIMB
        p1 == ValueOf(SubSeq(b, 1, LIMB)) * k + p2 \div 2^LIMB
    IN  BitsOf(p1, 30) \o BitsOf(p2 % 2^LIMB, LIMB) \o BitsOf(p3 % 2^LIMB, LIMB)

(* x * k for a Number x and a natural k < 2^10 *)
Times(x, k) == RoundToNumber(TimesSmall(x.sig, k), x.exp, FALSE)

(* --------------------------- finishDrill ------------------------------ *)
(* score: (correctCount / questions.length) * 100, evaluated once for every *)
(* pair of operands that occurs                                             *)
ScoreOperands == 0..(MaxScanLen + MaxOutcomes + MaxQuestions)

ScoreTable ==
    [correctCount \in ScoreOperands, n \in ScoreOperands \ {0} |->
        Times(Divide(correctCount, n), 100)]

Score(correctCount, n) == ScoreTable[correctCount, n]

CorrectCount(details) ==
    Cardinality({i \in DOMAIN details : details[i].isCorrect})

RECURSIVE ScanStreak(_, _, _)
ScanStreak(details, currentStreak, finalMaxStreak) ==
    IF details = <<>> THEN finalMaxStreak
    ELSE IF Head(details).isCorrect
         THEN ScanStreak(Tail(details), currentStreak + 1,
                         IF currentStreak + 1 > finalMaxStreak
                         THEN currentStreak + 1 ELSE finalMaxStreak)
         ELSE ScanStreak(Tail(details), 0, finalMaxStreak)

(* faulty variant of FinalMaxStreak: the run is not reset on an incorrect entry *)
FinalMaxStreakNoReset(details) == CorrectCount(details)

FinalMaxStreak(details) == ScanStreak(details, 0, 0)

(* faulty variant of Accuracy: the share of correct among the answered, 0  *)
(* when nothing was answered                                               *)
AccuracyOfAnswered(score, finalResults) ==
    LET answered == {i \in DOMAIN finalResults :
                        finalResults[i].userAnswer # Timeout}
    IN  IF answered = {} THEN Score(0, 1)
        ELSE Score(CorrectCount(finalResults), Cardinality(answered))

(* accuracy: score *)
Accuracy(score, finalResults) == score

FinishDrill(c) ==
    LET q == c.questions[c.currentIndex + 1]
        finalResults == Append(c.results,
                               [questionId    |-> q.id,
                                isCorrect     |-> c.isCorrect,
                                userAnswer    |-> c.lastAns,
                                correctAnswer |-> q.correctAnswer])
        score == Score(CorrectCount(finalResults), Len(c.questions))
    IN  [topic          |-> c.topic,
         score          |-> score,
         totalQuestions |-> Len(c.questions),
         accuracy       |-> Accuracy(score, finalResults),
         maxStreak      |-> FinalMaxStreak(finalResults),
         details        |-> finalResults]

(* ------------------------------ App ----------------------------------- *)
Mounted == view = "drill" /\ currentTopic # "null" /\ ~crashed

Active == Mounted /\ ~loading

(* faulty variant of FreshDrill: the results buffer outlives the instance *)
FreshDrillKeepsResults ==
    /\ loading' = TRUE
    /\ questions' = <<>>
    /\ currentIndex' = 0
    /\ userAnswer' = <<>>
    /\ feedback' = "null"
    /\ timeLeft' = TOTAL_TIME_PER_Q
    /\ results' = results
    /\ streak' = 0
    /\ maxStreak' = 0
    /\ pendingExpiry' = <<>>

FreshDrill ==
    /\ loading' = TRUE
    /\ questions' = <<>>
    /\ currentIndex' = 0
    /\ userAnswer' = <<>>
    /\ feedback' = "null"
    /\ timeLeft' = TOTAL_TIME_PER_Q
    /\ results' = <<>>
    /\ streak' = 0
    /\ maxStreak' = 0
    /\ pendingExpiry' = <<>>

Stale(ts) == [i \in DOMAIN ts |-> [ts[i] EXCEPT !.live = FALSE]]

StaleRequests(r) ==
    [r EXCEPT !.live = FALSE, !.stale = @ + (IF r.live THEN 1 ELSE 0)]

(* DrillSession mounts: initial state, and the load effect issues a request *)
MountDrill ==
    /\ FreshDrill
    /\ requests' = [requests EXCEPT !.live = TRUE]

(* ------------------------- the coaching request ------------------------ *)
FallbackAbsent == "Keep practicing to improve speed!"

FallbackError == "Great effort! Consistency is key."

AdviceTexts == {"Use unit digit method"}

(* what the awaited generateContent call of getDrillAnalysis produces: a   *)
(* rejection, or a response whose text is undefined, empty or an advice    *)
AdviceOutcomes ==
    { [kind |-> k, text |-> ""] : k \in {"rejected", "undefined", "empty"} }
    \cup { [kind |-> "text", text |-> t] : t \in AdviceTexts }

GetDrillAnalysis(o) ==
    IF o.kind = "rejected" THEN FallbackError
    ELSE IF o.kind \in {"undefined", "empty"} THEN FallbackAbsent
    ELSE o.text

(* Analysis state; effect: the fetchAdvice effect of the last render has   *)
(* not run yet, pending counts the getDrillAnalysis calls of the mounted   *)
(* instance that have not resolved, served is the kind of the outcome that *)
(* produced aiAdvice                                                       *)
FreshAnalysis ==
    [loadingAi |-> TRUE, aiAdvice |-> "", served |-> "none", pending |-> 0,
     effect |-> FALSE]

AnalysisMounted == view = "analysis" /\ lastResult # <<>> /\ ~crashed

(* Analysis is rendered with a new result, on mount or when result changes: *)
(* an effect of the mounted instance that is still pending runs before the  *)
(* render and issues its request, and the effect of this render is left to  *)
(* run                                                                      *)
RenderAnalysis ==
    analysis' = IF AnalysisMounted
                THEN [analysis EXCEPT
                        !.pending = IF analysis.effect THEN @ + 1 ELSE @,
                        !.effect = TRUE]
                ELSE [FreshAnalysis EXCEPT !.effect = TRUE]

InitApp ==
    /\ view = "login"
    /\ user = <<>>
    /\ currentTopic = "null"
    /\ lastResult = <<>>
    /\ loading = TRUE
    /\ questions = <<>>
    /\ currentIndex = 0
    /\ userAnswer = <<>>
    /\ feedback = "null"
    /\ timeLeft = TOTAL_TIME_PER_Q
    /\ results = <<>>
    /\ streak = 0
    /\ maxStreak = 0
    /\ pendingExpiry = <<>>
    /\ requests = [live |-> FALSE, stale |-> 0, discarded |-> 0]
    /\ timers = <<>>
    /\ crashed = FALSE
    /\ outcomes = 0
    /\ rejected = FALSE
    /\ analysis = FreshAnalysis
    /\ clock = [now |-> 0, questionStartTime |-> 0]

Init ==
    /\ InitApp
    /\ call = [fn |-> "none"]

(* faulty variant of Login: the name is neither tested nor stored trimmed *)
LoginUntrimmed(name) ==
    /\ rejected' = FALSE
    /\ ~crashed
    /\ view = "login"
    /\ IF name # <<>>
       THEN /\ user' = << [name |-> name, history |-> <<>>] >>
            /\ view' = "dashboard"
       ELSE UNCHANGED <<user, view>>
    /\ UNCHANGED <<currentTopic, lastResult, drillVars, requests, timers,
                   crashed, outcomes, call, analysis, clock>>

Login(name) ==
    /\ rejected' = FALSE
    /\ ~crashed
    /\ view = "login"
    /\ IF Trim(name) # <<>>
       THEN /\ user' = << [name |-> Trim(name), history |-> <<>>] >>
            /\ view' = "dashboard"
       ELSE UNCHANGED <<user, view>>
    /\ UNCHANGED <<currentTopic, lastResult, drillVars, requests, timers,
                   crashed, outcomes, call, analysis, clock>>

(* faulty variant of HandleLogout: the view is left on the dashboard *)
HandleLogoutKeepsView ==
    /\ rejected' = FALSE
    /\ ~crashed
    /\ view = "dashboard" /\ user # <<>>
    /\ user' = <<>>
    /\ UNCHANGED <<view, currentTopic, lastResult, drillVars, requests, timers,
                   crashed, outcomes, call, analysis, clock>>

HandleLogout ==
    /\ rejected' = FALSE
    /\ ~crashed
    /\ view = "dashboard" /\ user # <<>>
    /\ user' = <<>>
    /\ view' = "login"
    /\ UNCHANGED <<currentTopic, lastResult, drillVars, requests, timers,
                   crashed, outcomes, call, analysis, clock>>

HandleStartDrill(topic) ==
    /\ rejected' = FALSE
    /\ ~crashed
    /\ view = "dashboard" /\ user # <<>>
    /\ currentTopic' = topic
    /\ view' = "drill"
    /\ MountDrill
    /\ UNCHANGED <<user, lastResult, timers, crashed, outcomes, call,
                   analysis, clock>>

(* startQuestion: a full countdown and an empty answer field *)
StartQuestion ==
    /\ timeLeft' = TOTAL_TIME_PER_Q
    /\ userAnswer' = <<>>

(* faulty variant of RequestsAfterLoad: an empty batch is requested again *)
RequestsAfterLoadRetrying(data) ==
    IF data = <<>> THEN requests ELSE [requests EXCEPT !.live = FALSE]

(* the load effect awaits one generateQuestions call and issues no other *)
RequestsAfterLoad(data) == [requests EXCEPT !.live = FALSE]

(* faulty variant of LoadComplete: the completion is applied to whichever  *)
(* drill is mounted, not to the one that issued the request                *)
LoadCompleteUnscoped(live, data) ==
    /\ rejected' = FALSE
    /\ ~crashed
    /\ IF live
       THEN /\ requests.live
            /\ requests' = RequestsAfterLoad(data)
       ELSE /\ requests.stale > 0
            /\ requests' = [requests EXCEPT !.stale = @ - 1,
                                            !.discarded = @ + 1]
    /\ IF live \/ Mounted
       THEN /\ questions' = data
            /\ loading' = FALSE
            /\ StartQuestion
            /\ crashed' = (currentIndex >= Len(data))
            /\ UNCHANGED <<currentIndex, feedback, results, streak, maxStreak,
                           pendingExpiry>>
       ELSE UNCHANGED <<drillVars, crashed>>
    /\ UNCHANGED <<appVars, timers, outcomes, call, analysis, clock>>

(* generateQuestions resolves with the batch data; live: for the mounted   *)
(* drill, otherwise for a drill that was unmounted while it was loading    *)
LoadComplete(live, data) ==
    /\ rejected' = FALSE
    /\ ~crashed
    /\ IF live
       THEN /\ requests.live
            /\ requests' = RequestsAfterLoad(data)
            /\ questions' = data
            /\ loading' = FALSE
            /\ StartQuestion
            /\ crashed' = (currentIndex >= Len(data))
            /\ UNCHANGED <<currentIndex, feedback, results, streak, maxStreak,
                           pendingExpiry>>
       ELSE /\ requests.stale > 0
            /\ requests' = [requests EXCEPT !.stale = @ - 1,
                                            !.discarded = @ + 1]
            /\ UNCHANGED <<drillVars, crashed>>
    /\ UNCHANGED <<appVars, timers, outcomes, call, analysis, clock>>

(* the render a handler or an effect was created in: what it closes over *)
Render ==
    [topic        |-> currentTopic,
     questions    |-> questions,
     currentIndex |-> currentIndex,
     results      |-> results,
     user         |-> user]

(* the values the setTimeout callback of handleSubmit closes over *)
ClosureIn(r, isCorrect, lastAns) ==
    [live         |-> TRUE,
     topic        |-> r.topic,
     questions    |-> r.questions,
     currentIndex |-> r.currentIndex,
     results      |-> r.results,
     isCorrect    |-> isCorrect,
     lastAns      |-> lastAns,
     user         |-> r.user]

Closure(isCorrect, lastAns) == ClosureIn(Render, isCorrect, lastAns)

(* what handleSubmit writes, as committed by the last render *)
Committed ==
    [results   |-> results,
     streak    |-> streak,
     maxStreak |-> maxStreak,
     feedback  |-> feedback,
     timers    |-> timers,
     outcomes  |-> outcomes]

(* faulty variant of SubmitRejected: the empty-answer guard is missing *)
SubmitNeverRejected(isTimeout) == FALSE

SubmitRejected(isTimeout) == ~isTimeout /\ userAnswer = <<>>

(* faulty variant of Verdict: the text in the field is evaluated on a timeout too *)
VerdictIgnoringTimeout(isTimeout) ==
    IsCorrectTimed(userAnswer, questions[currentIndex + 1].correctAnswer)

Verdict(isTimeout) ==
    IF isTimeout THEN FALSE
    ELSE IsCorrectTimed(userAnswer, questions[currentIndex + 1].correctAnswer)

(* faulty variant of StreakAfter: an incorrect outcome keeps the streak *)
StreakAfterNoReset(isCorrect) == IF isCorrect THEN streak + 1 ELSE streak

StreakAfter(isCorrect) == IF isCorrect THEN streak + 1 ELSE 0

(* the updates of one handleSubmit call of render r that passed the guard, *)
(* queued behind the updates q: streak and maxStreak are set from the      *)
(* values of the render, results by a functional update                    *)
Accepted(q, r, isCorrect, lastAns) ==
    LET currentQ  == r.questions[r.currentIndex + 1]
        newStreak == streak + 1
    IN  [results   |-> Append(q.results,
                              [questionId    |-> currentQ.id,
                               isCorrect     |-> isCorrect,
                               userAnswer    |-> lastAns,
                               correctAnswer |-> currentQ.correctAnswer]),
         streak    |-> StreakAfter(isCorrect),
         maxStreak |-> IF isCorrect /\ newStreak > maxStreak
                       THEN newStreak ELSE q.maxStreak,
         feedback  |-> IF isCorrect THEN "correct" ELSE "incorrect",
         timers    |-> Append(q.timers, ClosureIn(r, isCorrect, lastAns)),
         outcomes  |-> q.outcomes + 1]

(* handleSubmit called by a handler of the current render *)
HandleSubmit(q, isTimeout) ==
    IF SubmitRejected(isTimeout) THEN q
    ELSE Accepted(q, Render, Verdict(isTimeout),
                  IF isTimeout THEN Timeout ELSE userAnswer)

(* the countdown effect of the render that reached timeLeft <= 0, if it has *)
(* not run yet: handleSubmit(undefined, true) of that render                *)
CountdownEffect(q) ==
    IF pendingExpiry = <<>> THEN q
    ELSE Accepted(q, pendingExpiry[1], FALSE, Timeout)

(* the next render applies the queued updates; no effect is left pending *)
Commit(q) ==
    /\ q.outcomes <= MaxOutcomes
    /\ results' = q.results
    /\ streak' = q.streak
    /\ maxStreak' = q.maxStreak
    /\ feedback' = q.feedback
    /\ timers' = q.timers
    /\ outcomes' = q.outcomes
    /\ pendingExpiry' = <<>>

SetUserAnswer(a) ==
    /\ rejected' = FALSE
    /\ Active
    /\ userAnswer' = a
    /\ Commit(CountdownEffect(Committed))
    /\ UNCHANGED <<appVars, loading, questions, currentIndex, timeLeft,
                   requests, crashed, call, analysis, clock>>

(* a submit that returns at the guard queues no update: nothing is        *)
(* rendered and a pending countdown effect stays pending                    *)
SubmitForm ==
    /\ Active
    /\ rejected' = SubmitRejected(FALSE)
    /\ IF SubmitRejected(FALSE)
       THEN UNCHANGED <<results, streak, maxStreak, feedback, timers,
                        outcomes, pendingExpiry>>
       ELSE Commit(CountdownEffect(HandleSubmit(Committed, FALSE)))
    /\ UNCHANGED <<appVars, loading, questions, currentIndex,
                   userAnswer, timeLeft, requests, crashed, call, analysis, clock>>

HandleSkip ==
    /\ rejected' = FALSE
    /\ Active
    /\ Commit(CountdownEffect(HandleSubmit(Committed, TRUE)))
    /\ UNCHANGED <<appVars, loading, questions, currentIndex,
                   userAnswer, timeLeft, requests, crashed, call, analysis, clock>>

(* the countdown effect sets an interval unless loading, feedback or expiry; *)
(* the interval of the render before the one that reached zero is cleared   *)
(* by the cleanup that runs with the effects of that render, and is still   *)
(* registered while they are pending                                        *)
CountdownRunning ==
    Active /\ feedback = "null" /\ (timeLeft > 0 \/ pendingExpiry # <<>>)

(* the one-second interval fires: setTimeLeft(prev => prev - 1); the render *)
(* with timeLeft <= 0 leaves the submitting effect to run; when the effect  *)
(* of the last render is still pending it runs before this render          *)
Tick ==
    /\ rejected' = FALSE
    /\ CountdownRunning
    /\ timeLeft' = timeLeft - 1
    /\ IF pendingExpiry = <<>>
       THEN /\ pendingExpiry' = IF timeLeft - 1 <= 0 THEN << Render >> ELSE <<>>
            /\ UNCHANGED <<feedback, results, streak, maxStreak, timers,
                           outcomes>>
       ELSE Commit(CountdownEffect(Committed))
    /\ UNCHANGED <<appVars, loading, questions, currentIndex, userAnswer,
                   requests, crashed, call, analysis, clock>>

(* the pending countdown effect runs in a step of its own *)
CountdownExpiry ==
    /\ rejected' = FALSE
    /\ Mounted
    /\ pendingExpiry # <<>>
    /\ Commit(CountdownEffect(Committed))
    /\ UNCHANGED <<appVars, loading, questions, currentIndex, userAnswer,
                   timeLeft, requests, crashed, call, analysis, clock>>

HandleDrillComplete(capturedUser, result) ==
    /\ user' = IF capturedUser # <<>>
               THEN << [capturedUser[1] EXCEPT
                          !.history = Append(capturedUser[1].history, result)] >>
               ELSE user
    /\ lastResult' = <<result>>
    /\ view' = "analysis"

(* the oldest pending advance timer fires; a countdown effect of the        *)
(* mounted drill that is still pending runs before the render the callback *)
(* causes, after the callback's own updates                                *)
TimerFire ==
    /\ rejected' = FALSE
    /\ ~crashed
    /\ timers # <<>>
    /\ LET c == Head(timers)
       IN  IF c.currentIndex < Len(c.questions) - 1
           THEN /\ IF c.live
                   THEN /\ Commit(CountdownEffect(
                                   [Committed EXCEPT !.feedback = "null",
                                                     !.timers = Tail(timers)]))
                        /\ currentIndex' = currentIndex + 1
                        /\ StartQuestion
                        /\ crashed' = (currentIndex + 1 >= Len(questions))
                        /\ UNCHANGED <<loading, questions>>
                   ELSE /\ timers' = Tail(timers)
                        /\ UNCHANGED <<drillVars, crashed, outcomes>>
                /\ UNCHANGED <<appVars, requests, analysis>>
           ELSE /\ HandleDrillComplete(c.user, FinishDrill(c))
                /\ RenderAnalysis
                /\ FreshDrill
                /\ CountdownEffect(Committed).outcomes <= MaxOutcomes
                /\ outcomes' = CountdownEffect(Committed).outcomes
                /\ timers' = Stale(Tail(CountdownEffect(Committed).timers))
                /\ requests' = StaleRequests(requests)
                /\ UNCHANGED <<currentTopic, crashed>>
    /\ UNCHANGED <<call, clock>>

(* the Abort button: onCancel; a pending countdown effect still runs before *)
(* the render that unmounts the drill, and its timer outlives the drill     *)
HandleDrillCancel ==
    /\ rejected' = FALSE
    /\ Active
    /\ view' = "dashboard"
    /\ currentTopic' = "null"
    /\ FreshDrill
    /\ CountdownEffect(Committed).outcomes <= MaxOutcomes
    /\ outcomes' = CountdownEffect(Committed).outcomes
    /\ timers' = Stale(CountdownEffect(Committed).timers)
    /\ requests' = StaleRequests(requests)
    /\ UNCHANGED <<user, lastResult, crashed, call, analysis, clock>>

HandleRetry ==
    /\ rejected' = FALSE
    /\ ~crashed
    /\ view = "analysis" /\ lastResult # <<>>
    /\ IF currentTopic # "null"
       THEN /\ view' = "drill"
            /\ MountDrill
       ELSE /\ view' = "dashboard"
            /\ UNCHANGED <<drillVars, requests>>
    /\ analysis' = FreshAnalysis
    /\ UNCHANGED <<user, currentTopic, lastResult, timers, crashed, outcomes,
                   call, clock>>

HandleHome ==
    /\ rejected' = FALSE
    /\ ~crashed
    /\ view = "analysis" /\ lastResult # <<>>
    /\ view' = "dashboard"
    /\ currentTopic' = "null"
    /\ lastResult' = <<>>
    /\ analysis' = FreshAnalysis
    /\ UNCHANGED <<user, drillVars, requests, timers, crashed, outcomes,
                   call, clock>>

(* the pending effect of Analysis runs: fetchAdvice calls getDrillAnalysis *)
FetchAdvice ==
    /\ rejected' = FALSE
    /\ AnalysisMounted
    /\ analysis.effect
    /\ analysis' = [analysis EXCEPT !.effect = FALSE, !.pending = @ + 1]
    /\ UNCHANGED <<appVars, drillVars, requests, timers, crashed, outcomes,
                   call, clock>>

(* a getDrillAnalysis call of the mounted Analysis resolves; when          *)
(* setAiAdvice or setLoadingAi changes the state, Analysis is rendered and  *)
(* an effect that is still pending runs before the render and issues its    *)
(* request; when both set the value the state already has, nothing is       *)
(* rendered and the effect stays pending                                    *)
AdviceComplete(o) ==
    /\ rejected' = FALSE
    /\ AnalysisMounted
    /\ analysis.pending > 0
    /\ LET rendered == \/ analysis.aiAdvice # GetDrillAnalysis(o)
                        \/ analysis.loadingAi
           effectRuns == rendered /\ analysis.effect
       IN  analysis' = [loadingAi |-> FALSE,
                        aiAdvice  |-> GetDrillAnalysis(o),
                        served    |-> o.kind,
                        pending   |-> IF effectRuns THEN analysis.pending
                                      ELSE analysis.pending - 1,
                        effect    |-> analysis.effect /\ ~rendered]
    /\ UNCHANGED <<appVars, drillVars, requests, timers, crashed, outcomes,
                   call, clock>>

Next ==
    \/ \E name \in Names : Login(name)
    \/ HandleLogout
    \/ \E topic \in Topics : HandleStartDrill(topic)
    \/ \E live \in BOOLEAN, n \in 0..MaxQuestions : LoadComplete(live, Batch(n))
    \/ \E a \in AnswerChoices : SetUserAnswer(a)
    \/ SubmitForm
    \/ HandleSkip
    \/ Tick
    \/ CountdownExpiry
    \/ TimerFire
    \/ HandleDrillCancel
    \/ HandleRetry
    \/ HandleHome
    \/ FetchAdvice
    \/ \E o \in AdviceOutcomes : AdviceComplete(o)

Spec == Init /\ [][Next]_vars
(* --------------------- one drill session, no App cycle ---------------- *)
(* The state right after a login and a topic selection on the dashboard.   *)
InitSession ==
    /\ \E name \in Names, topic \in Topics :
          /\ user = << [name |-> Trim(name), history |-> <<>>] >>
          /\ currentTopic = topic
    /\ view = "drill"
    /\ lastResult = <<>>
    /\ loading = TRUE
    /\ questions = <<>>
    /\ currentIndex = 0
    /\ userAnswer = <<>>
    /\ feedback = "null"
    /\ timeLeft = TOTAL_TIME_PER_Q
    /\ results = <<>>
    /\ streak = 0
    /\ maxStreak = 0
    /\ pendingExpiry = <<>>
    /\ requests = [live |-> TRUE, stale |-> 0, discarded |-> 0]
    /\ timers = <<>>
    /\ crashed = FALSE
    /\ outcomes = 0
    /\ rejected = FALSE
    /\ call = [fn |-> "none"]
    /\ analysis = FreshAnalysis
    /\ clock = [now |-> 0, questionStartTime |-> 0]

NextSession ==
    \/ \E n \in 0..MaxQuestions : LoadComplete(TRUE, Batch(n))
    \/ \E a \in AnswerChoices : SetUserAnswer(a)
    \/ SubmitForm
    \/ HandleSkip
    \/ Tick
    \/ CountdownExpiry
    \/ TimerFire
    \/ HandleDrillCancel
    \/ FetchAdvice
    \/ \E o \in AdviceOutcomes : AdviceComplete(o)

SpecSession == InitSession /\ [][NextSession]_vars
(* ------------------ finishDrill on arbitrary outcome runs -------------- *)
BoolSeqs(n) == UNION { [1..k -> BOOLEAN] : k \in 1..n }

DetailFor(k, ok) ==
    [questionId    |-> Question(k).id,
     isCorrect     |-> ok,
     userAnswer    |-> IF ok THEN CorrectAnswer ELSE Timeout,
     correctAnswer |-> Question(k).correctAnswer]

(* the closure of the last question's advance timer after the outcomes b *)
ClosureFor(b) ==
    [live         |-> TRUE,
     topic        |-> "Simplification",
     questions    |-> Batch(Len(b)),
     currentIndex |-> Len(b) - 1,
     results      |-> [k \in 1..(Len(b) - 1) |-> DetailFor(k - 1, b[k])],
     isCorrect    |-> b[Len(b)],
     lastAns      |-> IF b[Len(b)] THEN CorrectAnswer ELSE Timeout,
     user         |-> <<>>]

InitFinish ==
    /\ InitApp
    /\ \E b \in BoolSeqs(MaxScanLen) :
          call = [fn |-> "finishDrill", arg |-> ClosureFor(b), out |-> <<>>]

ApplyFinishDrill ==
    /\ call.fn = "finishDrill"
    /\ call.out = <<>>
    /\ call' = [call EXCEPT !.out = << FinishDrill(call.arg) >>]
    /\ UNCHANGED <<appVars, drillVars, requests, timers, crashed, outcomes,
                   rejected, analysis, clock>>

SpecFinish == InitFinish /\ [][ApplyFinishDrill]_vars

(* --------------- the correctness verdict on arbitrary strings ---------- *)
Chars == {" ", "x", "X"}

Strings(n) == UNION { [1..k -> Chars] : k \in 0..n }

InitCompare ==
    /\ InitApp
    /\ \E a \in Strings(MaxStrLen) \ {<<>>}, c \in Strings(MaxStrLen) :
          call = [fn |-> "isCorrect", userAnswer |-> a, correctAnswer |-> c,
                  out |-> <<>>]

ApplyIsCorrect ==
    /\ call.fn = "isCorrect"
    /\ call.out = <<>>
    /\ call' = [call EXCEPT
                  !.out = << IsCorrectTimed(call.userAnswer, call.correctAnswer) >>]
    /\ UNCHANGED <<appVars, drillVars, requests, timers, crashed, outcomes,
                   rejected, analysis, clock>>

SpecCompare == InitCompare /\ [][ApplyIsCorrect]_vars

(* ------------- generateQuestions on arbitrary service outcomes --------- *)
(* A JSON value is [type, items]; an item of an array is an object that    *)
(* has every required property or lacks the one named in "missing".        *)
RequiredFields ==
    {"id", "type", "questionText", "correctAnswer", "explanation", "options"}

Items == [missing : RequiredFields \cup {"none"}]

JsonArray(items) == [type |-> "array", items |-> items]

EmptySequence == JsonArray(<<>>)

JsonValues ==
    { JsonArray(items) :
        items \in UNION { [1..k -> Items] : k \in 0..MaxQuestions } }
    \cup { [type |-> t, items |-> <<>>] : t \in {"object", "null", "number"} }

(* what the awaited generateContent call produces: a rejection, or a       *)
(* response whose text is undefined, empty, unparsable, or a JSON value    *)
ServiceOutcomes ==
    { [kind |-> k, value |-> EmptySequence] :
        k \in {"rejected", "undefined", "empty", "malformed"} }
    \cup { [kind |-> "json", value |-> v] : v \in JsonValues }

(* the Question schema: an array whose items have every required property *)
ConformsToSchema(v) ==
    /\ v.type = "array"
    /\ \A i \in DOMAIN v.items : v.items[i].missing = "none"

Returned(v) == [threw |-> FALSE, value |-> v]

GenerateQuestions(o) ==
    IF o.kind = "rejected" THEN Returned(EmptySequence)
    ELSE IF o.kind \in {"undefined", "empty"} THEN Returned(EmptySequence)
    ELSE IF o.kind = "malformed" THEN Returned(EmptySequence)
    ELSE Returned(o.value)

InitGenerate ==
    /\ InitApp
    /\ \E o \in ServiceOutcomes :
          call = [fn |-> "generateQuestions", arg |-> o, out |-> <<>>]

ApplyGenerateQuestions ==
    /\ call.fn = "generateQuestions"
    /\ call.out = <<>>
    /\ call' = [call EXCEPT !.out = << GenerateQuestions(call.arg) >>]
    /\ UNCHANGED <<appVars, drillVars, requests, timers, crashed, outcomes,
                   rejected, analysis, clock>>

SpecGenerate == InitGenerate /\ [][ApplyGenerateQuestions]_vars

(* ------------------- the untimed variant of DrillSession --------------- *)
(* No countdown, no skip, no streak.  Times are in milliseconds (the code  *)
(* divides the same differences by 1000); the clock advances in steps of   *)
(* FEEDBACK_DELAY and a timer fires at or after the time it is due.        *)
IsCorrectUntimed(answer, correctAnswer) ==
    NormalizeStripAll(answer) = NormalizeStripAll(correctAnswer)

UntimedEntry(q, answer, timeSpent) ==
    [questionId    |-> q.id,
     isCorrect     |-> IsCorrectUntimed(answer, q.correctAnswer),
     userAnswer    |-> answer,
     correctAnswer |-> q.correctAnswer,
     timeSpent     |-> timeSpent]

(* the values the setTimeout callback and finishDrill close over *)
UntimedClosure ==
    [live              |-> TRUE,
     topic             |-> currentTopic,
     questions         |-> questions,
     currentIndex      |-> currentIndex,
     results           |-> results,
     userAnswer        |-> userAnswer,
     questionStartTime |-> clock.questionStartTime,
     user              |-> user,
     due               |-> clock.now + FEEDBACK_DELAY]

UntimedFinishDrill(c, now) ==
    LET q == c.questions[c.currentIndex + 1]
        finalResults ==
            Append(c.results,
                   UntimedEntry(q, c.userAnswer, now - c.questionStartTime))
        score == Score(CorrectCount(finalResults), Len(c.questions))
    IN  [topic          |-> c.topic,
         score          |-> score,
         totalQuestions |-> Len(c.questions),
         accuracy       |-> score,
         details        |-> finalResults]

InitUntimed == InitSession

UntimedLoadComplete(data) ==
    /\ rejected' = FALSE
    /\ ~crashed
    /\ requests.live
    /\ requests' = [requests EXCEPT !.live = FALSE]
    /\ questions' = data
    /\ loading' = FALSE
    /\ clock' = [clock EXCEPT !.questionStartTime = clock.now]
    /\ crashed' = (currentIndex >= Len(data))
    /\ UNCHANGED <<appVars, currentIndex, userAnswer, feedback, timeLeft,
                   results, streak, maxStreak, pendingExpiry, timers,
                   outcomes, call, analysis>>

UntimedHandleSubmit ==
    /\ Active
    /\ rejected' = (userAnswer = <<>>)
    /\ IF userAnswer = <<>>
       THEN UNCHANGED <<results, feedback, timers, outcomes>>
       ELSE LET e == UntimedEntry(questions[currentIndex + 1], userAnswer,
                                  clock.now - clock.questionStartTime)
            IN  /\ outcomes < MaxOutcomes
                /\ outcomes' = outcomes + 1
                /\ results' = Append(results, e)
                /\ feedback' = IF e.isCorrect THEN "correct" ELSE "incorrect"
                /\ timers' = Append(timers, UntimedClosure)
    /\ UNCHANGED <<appVars, loading, questions, currentIndex, userAnswer,
                   timeLeft, streak, maxStreak, pendingExpiry, requests,
                   crashed, call, analysis, clock>>

TimePasses ==
    /\ rejected' = FALSE
    /\ clock.now < MaxClockSteps * FEEDBACK_DELAY
    /\ clock' = [clock EXCEPT !.now = @ + FEEDBACK_DELAY]
    /\ UNCHANGED <<appVars, drillVars, requests, timers, crashed, outcomes,
                   call, analysis>>

UntimedTimerFire ==
    /\ rejected' = FALSE
    /\ ~crashed
    /\ timers # <<>>
    /\ clock.now >= Head(timers).due
    /\ LET c == Head(timers)
       IN  IF c.currentIndex < Len(c.questions) - 1
           THEN /\ IF c.live
                   THEN /\ feedback' = "null"
                        /\ userAnswer' = <<>>
                        /\ currentIndex' = currentIndex + 1
                        /\ clock' = [clock EXCEPT
                                       !.questionStartTime = clock.now]
                        /\ crashed' = (currentIndex + 1 >= Len(questions))
                        /\ UNCHANGED <<loading, questions, timeLeft, results,
                                       streak, maxStreak, pendingExpiry>>
                   ELSE UNCHANGED <<drillVars, crashed, clock>>
                /\ timers' = Tail(timers)
                /\ UNCHANGED <<appVars, requests, analysis>>
           ELSE /\ HandleDrillComplete(c.user,
                                       UntimedFinishDrill(c, clock.now))
                /\ RenderAnalysis
                /\ FreshDrill
                /\ timers' = Stale(Tail(timers))
                /\ requests' = StaleRequests(requests)
                /\ UNCHANGED <<currentTopic, crashed, clock>>
    /\ UNCHANGED <<outcomes, call>>

NextUntimed ==
    \/ \E n \in 0..MaxQuestions : UntimedLoadComplete(Batch(n))
    \/ \E a \in AnswerChoices : SetUserAnswer(a)
    \/ UntimedHandleSubmit
    \/ TimePasses
    \/ UntimedTimerFire
    \/ HandleDrillCancel
    \/ FetchAdvice
    \/ \E o \in AdviceOutcomes : AdviceComplete(o)

SpecUntimed == InitUntimed /\ [][NextUntimed]_vars

(* ------------- the coaching summary on arbitrary results --------------- *)
(* faulty variant of Summary: the details are sent as recorded *)
SummaryUnfiltered(result) ==
    [topic   |-> result.topic,
     score   |-> result.score,
     details |-> result.details]

(* the argument fetchAdvice passes to getDrillAnalysis *)
Summary(result) ==
    [topic   |-> result.topic,
     score   |-> result.score,
     details |-> [k \in DOMAIN result.details |->
                    [wasCorrect    |-> result.details[k].isCorrect,
                     timeTaken     |-> result.details[k].timeSpent,
                     correctAnswer |-> result.details[k].correctAnswer]]]

(* answer texts that have the verdict ok against CorrectAnswer *)
AnswersWithVerdict(ok) ==
    IF ok THEN { <<"x", ">", "y">>, <<"X", ">", "Y">> }
          ELSE { <<"z">>, Timeout }

(* a DrillResult with verdicts b and answer texts a *)
ResultWith(b, a) ==
    LET details == [k \in DOMAIN b |->
                      [questionId    |-> Question(k - 1).id,
                       isCorrect     |-> b[k],
                       userAnswer    |-> a[k],
                       correctAnswer |-> Question(k - 1).correctAnswer,
                       timeSpent     |-> k * FEEDBACK_DELAY]]
        score == Score(CorrectCount(details), Len(b))
    IN  [topic          |-> "Simplification",
         score          |-> score,
         totalQuestions |-> Len(b),
         accuracy       |-> score,
         details        |-> details]

AnswerTexts(b) ==
    { a \in [DOMAIN b -> AnswersWithVerdict(TRUE) \cup AnswersWithVerdict(FALSE)] :
        \A k \in DOMAIN b : a[k] \in AnswersWithVerdict(b[k]) }

InitSummary ==
    /\ InitApp
    /\ \E b \in BoolSeqs(MaxQuestions) :
         \E a1 \in AnswerTexts(b), a2 \in AnswerTexts(b) :
            call = [fn  |-> "summary",
                    arg |-> << ResultWith(b, a1), ResultWith(b, a2) >>,
                    out |-> <<>>]

ApplySummary ==
    /\ call.fn = "summary"
    /\ call.out = <<>>
    /\ call' = [call EXCEPT
                  !.out = << << Summary(call.arg[1]), Summary(call.arg[2]) >> >>]
    /\ UNCHANGED <<appVars, drillVars, requests, timers, crashed, outcomes,
                   rejected, analysis, clock>>

SpecSummary == InitSummary /\ [][ApplySummary]_vars

(* ------------------- the login form on arbitrary names ----------------- *)
InitLogin ==
    /\ InitApp
    /\ \E name \in Strings(MaxStrLen) : call = [fn |-> "login", name |-> name]

NextLogin ==
    \/ call.fn = "login" /\ Login(call.name)
    \/ HandleLogout
    \/ \E topic \in Topics : HandleStartDrill(topic)

SpecLogin == InitLogin /\ [][NextLogin]_vars

(* ------------- one drill session that the user does not abort --------- *)
(* The one-second interval and the 1200 ms timers are scheduled by the     *)
(* browser and fire once they are due, and React runs the pending effects  *)
(* of a render: weak fairness on Tick, CountdownExpiry and TimerFire.      *)
(* User events carry no fairness.                                          *)
NextUnaborted ==
    \/ \E n \in 0..MaxQuestions : LoadComplete(TRUE, Batch(n))
    \/ \E a \in AnswerChoices : SetUserAnswer(a)
    \/ SubmitForm
    \/ HandleSkip
    \/ Tick
    \/ CountdownExpiry
    \/ TimerFire
    \/ FetchAdvice
    \/ \E o \in AdviceOutcomes : AdviceComplete(o)

SpecUnaborted ==
    /\ InitSession
    /\ [][NextUnaborted]_vars
    /\ WF_vars(Tick)
    /\ WF_vars(CountdownExpiry)
    /\ WF_vars(TimerFire)

(* ============================== claims ================================== *)
Last(s) == s[Len(s)]

EntriesFor(k) == {i \in DOMAIN results : results[i].questionId = Question(k).id}

(* C1: for each question index at most one terminal event (submit, skip or  *)
(* expiry) is recorded: the results buffer never holds two entries for the  *)
(* same question.                                                           *)
C1_AtMostOneTerminalEvent ==
    \A k \in 0..(MaxQuestions - 1) : Cardinality(EntriesFor(k)) <= 1

(* C2: currentIndex never passes over an index for which no terminal event  *)
(* was recorded: every index below currentIndex has an entry in results.    *)
C2_NoIndexPassedOver ==
    ~loading => \A k \in 0..(currentIndex - 1) : EntriesFor(k) # {}

(* C3: every DrillResult passed to onComplete has exactly one DetailEntry   *)
(* per question, in presentation order.                                     *)
C3_OneDetailPerQuestion ==
    lastResult # <<>> =>
        LET r == lastResult[1]
        IN  /\ Len(r.details) = r.totalQuestions
            /\ \A k \in DOMAIN r.details :
                  r.details[k].questionId = Question(k - 1).id

(* x * den = num exactly, for a Number x and naturals num, den *)
IsExactly(x, num, den) ==
    Canonical(TimesSmall(x.sig, den), x.exp) = Canonical(BitsOf(num, 30), 0)

(* x <= m for a Number x below 2^30 and a natural m *)
AtMost(x, m) ==
    IF x.exp >= 0 THEN ValueOf(x.sig \o Zeros(x.exp)) <= m
    ELSE ValueOf(SubSeq(x.sig, 1, Len(x.sig) + x.exp)) < m

(* C4: the score of a completed drill lies in 0..100 and equals exactly     *)
(* 100 * correctCount / totalQuestions (score * totalQuestions equals       *)
(* 100 * correctCount), with correctCount <= totalQuestions.                *)
C4_ScoreIsPercentage ==
    lastResult # <<>> =>
        LET r == lastResult[1]
        IN  /\ IsExactly(r.score, 100 * CorrectCount(r.details),
                         r.totalQuestions)
            /\ AtMost(r.score, 100)
            /\ CorrectCount(r.details) <= r.totalQuestions

(* C5: the maxStreak of a finalized DrillResult is the length of the        *)
(* longest run of consecutive correct entries of its details, which are     *)
(* the captured results followed by the last question's entry.              *)
IsRun(d, i, j) == \A k \in i..j : d[k].isCorrect

LongestRun(d) ==
    CHOOSE m \in 0..Len(d) :
        /\ m = 0 \/ \E i \in DOMAIN d : i + m - 1 <= Len(d) /\ IsRun(d, i, i + m - 1)
        /\ \A i, j \in DOMAIN d : (i <= j /\ IsRun(d, i, j)) => j - i + 1 <= m

C5_MaxStreakIsLongestRun ==
    (call.fn = "finishDrill" /\ call.out # <<>>) =>
        LET r == call.out[1]
        IN  /\ Len(r.details) = Len(call.arg.results) + 1
            /\ SubSeq(r.details, 1, Len(call.arg.results)) = call.arg.results
            /\ Last(r.details).isCorrect = call.arg.isCorrect
            /\ r.maxStreak = LongestRun(r.details)

(* skip, then four correct answers: maxStreak 4 *)
C5_Witness ==
    /\ call.fn = "finishDrill"
    /\ call.out # <<>>
    /\ [k \in DOMAIN call.out[1].details |-> call.out[1].details[k].isCorrect]
          = <<FALSE, TRUE, TRUE, TRUE, TRUE>>
    /\ call.out[1].maxStreak = 4

(* C6: the verdict for a submitted answer is TRUE exactly when userAnswer   *)
(* and correctAnswer are equal after stripping all whitespace (interior     *)
(* too) and lower-casing both.                                              *)
C6_VerdictStripsAllWhitespace ==
    (call.fn = "isCorrect" /\ call.out # <<>>) =>
        call.out[1] = (NormalizeStripAll(call.userAnswer)
                         = NormalizeStripAll(call.correctAnswer))

TimeoutEntry(r) ==
    [questionId    |-> r.questions[r.currentIndex + 1].id,
     isCorrect     |-> FALSE,
     userAnswer    |-> Timeout,
     correctAnswer |-> r.questions[r.currentIndex + 1].correctAnswer]

(* the timeout outcome of the render r is recorded, and nothing else *)
TimeoutRecorded(r) ==
    /\ results' = Append(results, TimeoutEntry(r))
    /\ streak' = 0
    /\ maxStreak' = maxStreak
    /\ feedback' = "incorrect"
    /\ timers' = Append(timers, ClosureIn(r, FALSE, Timeout))
    /\ currentIndex' = currentIndex
    /\ userAnswer' = userAnswer
    /\ timeLeft' = timeLeft

(* C7: a skip and a countdown expiry record the same outcome: an entry with *)
(* isCorrect FALSE and userAnswer "Timeout" whatever the answer field       *)
(* holds, the streak reset to 0, and one advance timer for that entry; the  *)
(* skip records it for the question of the current render, the expiry for   *)
(* the question whose countdown reached zero; a skip that arrives while the *)
(* expiry is still pending is followed by it in the same step.              *)
C7_SkipAndExpiryRecordTimeout ==
    [][/\ (HandleSkip /\ pendingExpiry = <<>>) => TimeoutRecorded(Render)
       /\ CountdownExpiry => TimeoutRecorded(pendingExpiry[1])
       /\ (HandleSkip /\ pendingExpiry # <<>>) =>
             /\ results' = results \o << TimeoutEntry(Render),
                                         TimeoutEntry(pendingExpiry[1]) >>
             /\ streak' = 0
             /\ maxStreak' = maxStreak
             /\ feedback' = "incorrect"]_vars

(* the countdown expired on the second question while the field held the    *)
(* correct answer, after a correct first answer                             *)
C7_Witness ==
    /\ Active
    /\ timeLeft = 0
    /\ pendingExpiry = <<>>
    /\ currentIndex = 1
    /\ Len(results) = 2
    /\ results[1].isCorrect
    /\ Last(results).userAnswer = Timeout
    /\ ~Last(results).isCorrect
    /\ IsCorrectTimed(userAnswer, questions[currentIndex + 1].correctAnswer)
    /\ streak = 0
    /\ maxStreak = 1

(* C8: an explicit submit with an empty answer changes nothing: results,    *)
(* streak, maxStreak, currentIndex, feedback and timeLeft are kept, no      *)
(* advance timer is scheduled, and a countdown expiry that is pending stays *)
(* pending.                                                                 *)
C8_EmptySubmitIsNoOp ==
    [][((SubmitForm /\ userAnswer = <<>>) \/ rejected') =>
          UNCHANGED <<appVars, drillVars, requests, timers, crashed,
                      outcomes, call>>]_vars

(* an empty submit was rejected while the countdown was running *)
C8_Witness ==
    /\ rejected
    /\ Active
    /\ userAnswer = <<>>
    /\ feedback = "null"
    /\ timeLeft \in 1..(TOTAL_TIME_PER_Q - 1)
    /\ results = <<>>
    /\ timers = <<>>

(* C9: after an empty batch the drill is never shown in its non-loading     *)
(* state with zero questions (the user is back on the dashboard).           *)
C9_EmptyBatchNeverActive ==
    ~(view = "drill" /\ ~loading /\ questions = <<>>)

(* C10: User.history is append-only: while a user is logged in, every step  *)
(* leaves the history as it was or appends one DrillResult at its end.      *)
IsPrefix(s, t) == Len(s) <= Len(t) /\ SubSeq(t, 1, Len(s)) = s

C10_HistoryAppendOnly ==
    [][(user # <<>> /\ user' # <<>>) =>
          /\ IsPrefix(user[1].history, user'[1].history)
          /\ Len(user'[1].history) <= Len(user[1].history) + 1]_vars

(* C11: a question request that completes after its drill was unmounted is  *)
(* discarded: the completion changes none of view, user (and its history), *)
(* lastResult, currentTopic, and nothing of the drill mounted by then (its *)
(* questions are not installed, its loading flag is not cleared).          *)
C11_StaleCompletionDiscarded ==
    [][requests'.discarded > requests.discarded
         => UNCHANGED <<appVars, drillVars, timers, crashed>>]_vars

(* a completion was discarded while a later drill is still loading *)
C11_Witness ==
    /\ requests.discarded > 0
    /\ Mounted /\ loading /\ requests.live
    /\ questions = <<>>

(* C12: generateQuestions returns the empty sequence and does not throw    *)
(* for every failure of the service call: a rejected call, an undefined or *)
(* empty text, text that is not JSON, and JSON that does not conform to    *)
(* the Question schema (not an array, or an item lacking a required        *)
(* property).                                                              *)
C12_FailureYieldsEmptySequence ==
    (/\ call.fn = "generateQuestions"
     /\ call.out # <<>>
     /\ \/ call.arg.kind # "json"
        \/ ~ConformsToSchema(call.arg.value))
        => call.out[1] = Returned(EmptySequence)

FailureKinds == {"rejected", "undefined", "empty"}

ResultsUntouchedByAdvice ==
    (FetchAdvice \/ \E o \in AdviceOutcomes : AdviceComplete(o))
        => UNCHANGED <<appVars, drillVars, requests, timers, crashed,
                       outcomes>>

(* C13: the coaching request never alters results (neither issuing it nor  *)
(* its completion changes any of view, user and its history, currentTopic, *)
(* lastResult), and                                                        *)
(* after an absent response or a failed call the advice is one fixed       *)
(* fallback string, the same for every kind of failure.                    *)
C13_OneFallbackForEveryFailure ==
    /\ [](analysis.served \in FailureKinds =>
            \A o \in AdviceOutcomes :
                o.kind \in FailureKinds => analysis.aiAdvice = GetDrillAnalysis(o))
    /\ [][ResultsUntouchedByAdvice]_vars

(* C14: the countdown is TOTAL_TIME_PER_Q whenever a question becomes      *)
(* active (the batch is installed, or the index advances); it changes only *)
(* by a tick, which takes exactly 1 off while the question is active with  *)
(* no feedback shown, and at 0 it is not decremented again; the tick that  *)
(* reaches 0 leaves one timeout-submit pending for the current question,   *)
(* nothing else makes or replaces a pending one, and while the drill stays *)
(* mounted it is discharged by recording the timeout entry of that         *)
(* question, with feedback and an advance timer.                           *)
C14_Countdown ==
    [][/\ ((loading /\ ~loading') \/ currentIndex' = currentIndex + 1)
            => timeLeft' = TOTAL_TIME_PER_Q
       /\ timeLeft' # timeLeft
            => \/ timeLeft' = TOTAL_TIME_PER_Q
               \/ /\ timeLeft' = timeLeft - 1
                  /\ timeLeft > 0
                  /\ Active /\ feedback = "null"
       /\ (timeLeft' = 0 /\ timeLeft # 0)
            => /\ pendingExpiry = <<>>
               /\ pendingExpiry' = << Render >>
               /\ UNCHANGED <<results, feedback, timers, currentIndex>>
       /\ (pendingExpiry' # <<>> /\ pendingExpiry' # pendingExpiry)
            => (timeLeft' = 0 /\ timeLeft = 1)
       /\ (pendingExpiry # <<>> /\ pendingExpiry' = <<>> /\ view' = "drill")
            => /\ Len(results') >= Len(results) + 1
               /\ Last(results') = TimeoutEntry(pendingExpiry[1])
               /\ feedback' = "incorrect"
               /\ Last(timers') = ClosureIn(pendingExpiry[1], FALSE, Timeout)
      ]_vars

TrailingRun(d) ==
    CHOOSE m \in 0..Len(d) :
        /\ IsRun(d, Len(d) - m + 1, Len(d))
        /\ m < Len(d) => ~d[Len(d) - m].isCorrect

(* C15: after every recorded outcome streak is the length of the trailing  *)
(* run of correct entries of the results buffer, maxStreak is the length   *)
(* of its longest run, and streak <= maxStreak <= number of entries.       *)
C15_CountersAgreeWithResults ==
    /\ streak = TrailingRun(results)
    /\ maxStreak = LongestRun(results)
    /\ streak <= maxStreak
    /\ maxStreak <= Len(results)

(* a correct answer to the first question, an incorrect one to the second *)
C15_Witness ==
    /\ Active
    /\ currentIndex = 1
    /\ Len(results) = 2
    /\ results[1].questionId = Question(0).id
    /\ results[2].questionId = Question(1).id
    /\ results[1].isCorrect /\ ~results[2].isCorrect
    /\ results[2].userAnswer # Timeout
    /\ streak = 0
    /\ maxStreak = 1

(* C16: every DetailEntry of a finalized DrillResult, the last question's  *)
(* included, has timeSpent equal to the time from its question becoming    *)
(* active to its terminal event being accepted, without the feedback       *)
(* delay: the entries before the last are those recorded at acceptance,    *)
(* and the last one spans questionStartTime to the moment the advance      *)
(* timer was scheduled.                                                    *)
C16_TimeSpentExcludesDelay ==
    [][(lastResult' # lastResult /\ lastResult' # <<>> /\ timers # <<>>) =>
          LET c == Head(timers)
              d == lastResult'[1].details
          IN  /\ SubSeq(d, 1, Len(d) - 1) = c.results
              /\ Last(d).timeSpent
                    = (c.due - FEEDBACK_DELAY) - c.questionStartTime]_vars

(* r1 and r2 differ at most in the userAnswer text of their details *)
SameButAnswers(r1, r2) ==
    /\ r1.topic = r2.topic
    /\ r1.score = r2.score
    /\ Len(r1.details) = Len(r2.details)
    /\ \A k \in DOMAIN r1.details :
          [r1.details[k] EXCEPT !.userAnswer = <<>>]
              = [r2.details[k] EXCEPT !.userAnswer = <<>>]

(* C17: the summary sent to the coaching service depends only on topic,    *)
(* score and, per question, correctness, time spent and correct answer:    *)
(* two results that differ only in the userAnswer text of their details    *)
(* give identical requests.                                                *)
C17_SummaryIgnoresAnswerText ==
    (/\ call.fn = "summary"
     /\ call.out # <<>>
     /\ SameButAnswers(call.arg[1], call.arg[2]))
        => call.out[1][1] = call.out[1][2]

(* two results with different answer texts were summarised *)
C17_Witness ==
    /\ call.fn = "summary"
    /\ call.out # <<>>
    /\ SameButAnswers(call.arg[1], call.arg[2])
    /\ Len(call.arg[1].details) = 2
    /\ call.arg[1].details[1].userAnswer = <<"z">>
    /\ call.arg[2].details[1].userAnswer = Timeout
    /\ call.arg[1].details[2].userAnswer # call.arg[2].details[2].userAnswer
    /\ call.out[1][1].details[2].wasCorrect

(* C18: in every DrillResult produced (shown on the analysis screen or     *)
(* kept in the history) accuracy equals score.                             *)
C18_AccuracyEqualsScore ==
    /\ lastResult # <<>> => lastResult[1].accuracy = lastResult[1].score
    /\ user # <<>> =>
          \A i \in DOMAIN user[1].history :
              user[1].history[i].accuracy = user[1].history[i].score

(* a drill of two questions finished with one correct answer and one skip *)
C18_Witness ==
    /\ lastResult # <<>>
    /\ lastResult[1].totalQuestions = 2
    /\ lastResult[1].score = Score(1, 2)
    /\ lastResult[1].accuracy = Score(1, 2)
    /\ \E k \in DOMAIN lastResult[1].details :
          lastResult[1].details[k].userAnswer = Timeout
    /\ user # <<>> /\ Last(user[1].history) = lastResult[1]

Outstanding(r) == (IF r.live THEN 1 ELSE 0) + r.stale

DrillStart == view # "drill" /\ view' = "drill"

(* C19: each drill start issues exactly one question request; a request is *)
(* issued by nothing but a drill start, which is a topic selection on the  *)
(* dashboard or a Retry on the analysis screen; when the request of the    *)
(* mounted drill completes, also with an empty batch, none is issued in    *)
(* its place.                                                              *)
C19_OneRequestPerDrillStart ==
    [][/\ DrillStart <=> (requests'.live /\ ~requests.live)
       /\ DrillStart => /\ view \in {"dashboard", "analysis"}
                        /\ Outstanding(requests') = Outstanding(requests) + 1
       /\ ~DrillStart => Outstanding(requests') <= Outstanding(requests)
       /\ (loading /\ ~loading')
            => /\ ~requests'.live
               /\ Outstanding(requests') = Outstanding(requests) - 1
      ]_vars

(* a drill started by Retry received an empty batch and no request is out *)
C19_Witness ==
    /\ view = "drill"
    /\ lastResult # <<>>
    /\ ~loading
    /\ questions = <<>>
    /\ Outstanding(requests) = 0

UserNamed(name) == << [name |-> name, history |-> <<>>] >>

(* C20: a Login whose name is empty or only whitespace creates no user and *)
(* leaves the view at login; a Login with any other name creates the user   *)
(* with the trimmed name and an empty history and shows the dashboard.     *)
C20_LoginTrimsName ==
    /\ [](call.fn = "login" =>
            /\ Trim(call.name) = <<>> => (view = "login" /\ user = <<>>)
            /\ view = "login" => user = <<>>
            /\ view # "login" => user = UserNamed(Trim(call.name)))
    /\ [][(call.fn = "login" /\ Login(call.name)) =>
            IF Trim(call.name) = <<>>
            THEN UNCHANGED <<view, user>>
            ELSE view' = "dashboard" /\ user' = UserNamed(Trim(call.name))]_vars

(* a name with a leading and a trailing blank was accepted *)
C20_Witness ==
    /\ call.fn = "login"
    /\ call.name = <<" ", "x", " ">>
    /\ view = "dashboard"
    /\ user = UserNamed(<<"x">>)

(* C21: after the user aborts a drill nothing of that drill reaches the    *)
(* application state: from the dashboard the abort led to, no step of the  *)
(* session (an advance timer scheduled before the abort included) switches *)
(* the view, sets lastResult or changes the user's history.                *)
C21_AbortedDrillLeavesNoTrace ==
    [][view = "dashboard" =>
          /\ view' = "dashboard"
          /\ lastResult' = lastResult
          /\ user' = user]_vars

(* C22: onComplete is called at most once per drill session, and only by  *)
(* the advance timer of the last question: when a timer takes the finish   *)
(* branch, no result of this session has been delivered before.            *)
OnCompleteStep ==
    /\ timers # <<>>
    /\ Len(timers') = Len(timers) - 1
    /\ Head(timers).currentIndex >= Len(Head(timers).questions) - 1

C22_OnCompleteAtMostOnce ==
    [][OnCompleteStep =>
          /\ lastResult = <<>>
          /\ Head(timers).currentIndex = Len(Head(timers).questions) - 1]_vars

(* C23: whenever the drill is not loading, 0 <= currentIndex <            *)
(* questions.length, so that questions[currentIndex] is a question.        *)
C23_IndexInRange ==
    (view = "drill" /\ ~loading) =>
        (0 <= currentIndex /\ currentIndex < Len(questions))

(* C24: in the timed variant, once a non-empty batch has loaded and the    *)
(* user does not abort, the drill eventually calls onComplete, whatever    *)
(* the user does or does not enter, provided ticks and advance timers      *)
(* eventually fire.                                                        *)
C24_DrillEventuallyCompletes ==
    (Active /\ questions # <<>>) ~> (lastResult # <<>>)

(* C25: after logout the application stays logged out until the next       *)
(* login: while the view is login and there is no user, the only step that *)
(* changes either is a login, which shows the dashboard with a user.       *)
C25_LoggedOutUntilLogin ==
    [][(view = "login" /\ user = <<>>) =>
          \/ view' = "login" /\ user' = <<>>
          \/ view' = "dashboard" /\ user' # <<>> /\ user'[1].history = <<>>]_vars

(* C26: the current view has the data it renders: the dashboard a user,    *)
(* the drill a topic, the analysis a result.                               *)
C26_ViewHasItsData ==
    /\ view = "dashboard" => user # <<>>
    /\ view = "drill" => currentTopic # "null"
    /\ view = "analysis" => lastResult # <<>>

(* the analysis screen is shown by a timer that outlived an abort *)
C26_Witness ==
    /\ view = "analysis"
    /\ lastResult # <<>>
    /\ currentTopic = "null"
    /\ ~Mounted
    /\ user # <<>>
    /\ Len(user[1].history) = 1

(* C27: timeLeft always lies in 0..TOTAL_TIME_PER_Q, and the countdown is  *)
(* suspended while the batch is loading and while feedback is shown: in    *)
(* those states no step takes time off (so none reaches the expiry that    *)
(* synthesizes a timeout) and no timeout-submit is pending; timeLeft is    *)
(* kept or rewound for a new question.                                     *)
C27_CountdownSuspended ==
    /\ [](timeLeft \in 0..TOTAL_TIME_PER_Q)
    /\ [](pendingExpiry # <<>> => (~loading /\ feedback = "null"))
    /\ [][(loading \/ feedback # "null") =>
            (timeLeft' = timeLeft \/ timeLeft' = TOTAL_TIME_PER_Q)]_vars

(* C28: every drill start begins from fresh drill state (loading, index 0, *)
(* empty results, streak and maxStreak 0, empty answer); the results that  *)
(* a timer of the mounted drill will finalize are a prefix of that drill's *)
(* own buffer, so no entry of an earlier drill enters its DrillResult; and *)
(* each question that becomes active starts with an empty answer field.    *)
C28_DrillStartsFresh ==
    /\ [][/\ DrillStart =>
               /\ loading' /\ questions' = <<>>
               /\ currentIndex' = 0
               /\ results' = <<>>
               /\ streak' = 0 /\ maxStreak' = 0
               /\ userAnswer' = <<>> /\ feedback' = "null"
          /\ ((loading /\ ~loading') \/ currentIndex' = currentIndex + 1)
               => userAnswer' = <<>>]_vars
    /\ [](\A i \in DOMAIN timers :
            timers[i].live => /\ IsPrefix(timers[i].results, results)
                              /\ timers[i].questions = questions)

(* a drill started by Retry is fresh while a timer of the drill before it, *)
(* which holds an entry of that drill, is still pending                    *)
C28_Witness ==
    /\ view = "drill" /\ loading
    /\ results = <<>>
    /\ lastResult # <<>>
    /\ \E i \in DOMAIN timers : ~timers[i].live /\ timers[i].results # <<>>

(* C29: the details that finishDrill builds from the results captured in   *)
(* its closure and a reconstructed last entry are, entry for entry, the    *)
(* results buffer as it was once handleSubmit had appended the last        *)
(* question's entry: when a timer of the mounted drill finishes it, the    *)
(* details equal the first Len(captured results) + 1 entries of the buffer. *)
C29_DetailsEqualBuffer ==
    [][(OnCompleteStep /\ Head(timers).live) =>
          /\ lastResult' # <<>>
          /\ Len(results) >= Len(Head(timers).results) + 1
          /\ lastResult'[1].details
                = SubSeq(results, 1, Len(Head(timers).results) + 1)]_vars

====
